---------------------------- MODULE Spec2Model ----------------------------
(***************************************************************************)
(* Model of the md-parser tokenizer (src/src/tokenizer.rs) and of the      *)
(* line driver that feeds it (src/src/main.rs).                            *)
(*                                                                         *)
(* A line is a sequence of characters.  Every character is one byte wide   *)
(* except WideChar, which stands for a character whose UTF-8 encoding is   *)
(* two bytes (such as U+00E9).  The tokenizer advances cursor as a       *)
(* character index (chars().nth) and uses it as a byte offset when it      *)
(* slices the line, so both views of a line are modelled.                  *)
(*                                                                         *)
(* One call of next() is a sequence of steps: an iteration of its loop     *)
(* first fetches the character under the cursor (tokenizer.rs line 47) and *)
(* then dispatches on (current, state) (line 60).                          *)
(***************************************************************************)
EXTENDS Integers, Sequences, FiniteSets, TLC

VARIABLES doc, lineIdx, line, cursor, state, pc, literal_start, current,
          ret, tokens, nones

vars == <<doc, lineIdx, line, cursor, state, pc, literal_start, current,
          ret, tokens, nones>>

---------------------------------------------------------------------------
(* Bounds of the explored inputs.                                          *)

\* longest line drawn from the full alphabet
MaxLen == 3
\* longest run of leading '#' put in front of a tail
MaxHashes == 7
\* longest tail put after a '#' run or after a code fence
MaxTail == 3
\* most lines of a multi-line input file
MaxDocLines == 3
\* how many times a caller may see the sentinel on one line
MaxSentinels == 2
\* longest line drawn from the alphabet that mixes character widths
MaxMixed == 4
\* most delimiters in the run that opens a nested span
MaxNest == 2

---------------------------------------------------------------------------
(* Characters and strings.                                                 *)

WideChar == "E"

Tab == "\t"

\* the grave accent (backtick) character, U+0060
Backtick == "BACKTICK"

\* the form feed, U+000C: whitespace of one byte other than ' ' and '\t'
FormFeed == "FF"

\* the no-break space, U+00A0: whitespace whose UTF-8 encoding is two bytes
WideSpace == "NBSP"

Alphabet ==
    {"#", " ", Tab, "-", "_", "*", "+", "~", Backtick, "a", WideChar,
     FormFeed, WideSpace}

\* plain text of both widths and one delimiter
MixedAlphabet == {"a", "*", WideChar}

TailAlphabet == {"#", " ", "*", "-", "a", WideChar}

\* the value of char::default(), which no line contains
NulChar == "NUL"

\* the value of current while no character has been fetched
NoChar == "none"

Strs(alpha, n) == UNION {[1..k -> alpha] : k \in 0..n}

Hashes(n) == [i \in 1..n |-> "#"]

Fence == <<Backtick, Backtick, Backtick>>

\* width in bytes of the UTF-8 encoding of a character
Width(c) == IF c \in {WideChar, WideSpace} THEN 2 ELSE 1

\* byte offset at which the character of (0-based) index i starts
RECURSIVE ByteOffset(_, _)
ByteOffset(s, i) ==
    IF i = 0 THEN 0 ELSE ByteOffset(s, i - 1) + Width(s[i])

ByteLen(s) == ByteOffset(s, Len(s))

\* str::is_char_boundary
IsCharBoundary(s, b) == \E i \in 0..Len(s) : ByteOffset(s, i) = b

\* the character index whose byte offset is b (b a character boundary)
CharIndexAt(s, b) == CHOOSE i \in 0..Len(s) : ByteOffset(s, i) = b

\* whether the index expression s[a..b] evaluates without a panic
SliceOk(s, a, b) ==
    /\ a <= b
    /\ b <= ByteLen(s)
    /\ IsCharBoundary(s, a)
    /\ IsCharBoundary(s, b)

\* the value of s[a..b] when SliceOk(s, a, b)
Slice(s, a, b) == SubSeq(s, CharIndexAt(s, a) + 1, CharIndexAt(s, b))

\* s.get(a..).unwrap_or_default()
GetFromOrDefault(s, a) ==
    IF a <= ByteLen(s) /\ IsCharBoundary(s, a)
        THEN SubSeq(s, CharIndexAt(s, a) + 1, Len(s))
        ELSE <<>>

\* s.starts_with(p)
StartsWith(s, p) == Len(s) >= Len(p) /\ SubSeq(s, 1, Len(p)) = p

\* the class \s of the regex crate, and char::is_whitespace: the Unicode
\* property White_Space
IsWhitespace(c) == c \in {" ", Tab, FormFeed, WideSpace}

\* number of leading characters of s that satisfy the class
RECURSIVE LeadingWs(_)
LeadingWs(s) ==
    IF s # <<>> /\ IsWhitespace(Head(s)) THEN 1 + LeadingWs(Tail(s)) ELSE 0

\* a trim that also removes the whitespace at the end (str::trim)
trim_start_BothEnds(s) ==
    LET t == SubSeq(s, LeadingWs(s) + 1, Len(s))
        keep == {n \in 0..Len(t) : n = 0 \/ ~IsWhitespace(t[n])}
    IN  SubSeq(t, 1, CHOOSE n \in keep : \A k \in keep : k <= n)

\* str::trim_start
trim_start(s) == SubSeq(s, LeadingWs(s) + 1, Len(s))

\* self.line.chars().nth(i), NoChar standing for Option::None
CharsNth(s, i) == IF i < Len(s) THEN s[i + 1] ELSE NoChar

---------------------------------------------------------------------------
(* Tokens.                                                                 *)

Blank == [kind |-> "Blank"]
HorizontalRule == [kind |-> "HorizontalRule"]
UnorderedList == [kind |-> "UnorderedList"]
Paragraph == [kind |-> "Paragraph"]
Bold == [kind |-> "Bold"]
Italic == [kind |-> "Italic"]
Strikethrough == [kind |-> "Strikethrough"]
CodeBlock(label) == [kind |-> "CodeBlock", label |-> label]
Header(level) == [kind |-> "Header", level |-> level]
Literal(text) == [kind |-> "Literal", text |-> text]

\* Option::None returned by next(): the sentinel
NoToken == [kind |-> "None"]

\* value of ret before the first call on a line has returned
NotCalled == [kind |-> "NotCalled"]

---------------------------------------------------------------------------
(* The recognizers.                                                        *)

\* header_pattern with the repetition written {1,7}
HeaderGroupLens_UpTo7(l) ==
    {k \in 1..7 :
        /\ Len(l) >= k + 2
        /\ \A i \in 1..k : l[i] = "#"
        /\ l[k + 1] # "#"}

\* header_pattern  ^(#{1,6})[^#]\s*(.+)$ : the lengths k of the first group
\* for which the pattern matches the line
HeaderGroupLens(l) ==
    {k \in 1..6 :
        /\ Len(l) >= k + 1
        /\ \A i \in 1..k : l[i] = "#"
        /\ l[k + 1] # "#"
        /\ \E w \in 0..Len(l) :
              /\ k + 1 + w + 1 <= Len(l)
              /\ \A i \in (k + 2)..(k + 1 + w) : IsWhitespace(l[i])}

SetMax(S) == CHOOSE x \in S : \A y \in S : y <= x

\* handle_header: the token returned and the new cursor
handle_header(l, c) ==
    IF HeaderGroupLens(l) = {}
        THEN [token |-> Paragraph, cursor |-> c]
        ELSE LET len1 == SetMax(HeaderGroupLens(l))
             IN  [token |-> Header(len1), cursor |-> c + len1 + 1]

\* ulist_pattern  ^\s*([-*+])\s+ : the byte length of the whole match,
\* or 0 when the pattern does not match (a match is never empty)
UlistMatchLen(l) ==
    LET a == LeadingWs(l)
        rest == SubSeq(l, a + 2, Len(l))
    IN  IF /\ a < Len(l)
           /\ l[a + 1] \in {"-", "*", "+"}
           /\ LeadingWs(rest) >= 1
            THEN ByteOffset(l, a + 1 + LeadingWs(rest))
            ELSE 0

\* a rule check that looks at the characters one by one instead of
\* comparing the whole line
IsHorizontalRule_AnyMix(l) == Len(l) = 3 /\ \A i \in 1..3 : l[i] \in {"-", "_", "*"}

\* handle_horizontal_rule returns Some(HorizontalRule)
IsHorizontalRule(l) ==
    \/ l = <<"-", "-", "-">>
    \/ l = <<"_", "_", "_">>
    \/ l = <<"*", "*", "*">>

\* handle_text_modifier without the step back of line 130
handle_text_modifier_NoStepBack(l, c) ==
    LET cur == CharsNth(l, c)
        nxt == CharsNth(l, c + 1)
    IN  IF cur = "~" /\ nxt = "~"
            THEN [token |-> Strikethrough, cursor |-> c + 2]
        ELSE IF (cur = "*" /\ nxt = "*") \/ (cur = "_" /\ nxt = "_")
            THEN [token |-> Bold, cursor |-> c + 2]
        ELSE [token |-> Italic, cursor |-> c + 2]

\* handle_text_modifier: the token returned and the new cursor
handle_text_modifier(l, c) ==
    LET cur == CharsNth(l, c)
        nxt == IF CharsNth(l, c + 1) = NoChar THEN NulChar
                                              ELSE CharsNth(l, c + 1)
    IN  IF cur = NoChar THEN [token |-> NoToken, cursor |-> c]
        ELSE IF cur = "~" /\ nxt = "~"
            THEN [token |-> Strikethrough, cursor |-> c + 2]
        ELSE IF cur = "*" /\ nxt = "*"
            THEN [token |-> Bold, cursor |-> c + 2]
        ELSE IF cur = "_" /\ nxt = "_"
            THEN [token |-> Bold, cursor |-> c + 2]
        ELSE [token |-> Italic, cursor |-> (c + 2) - 1]

\* an end-of-line branch that does not tell End from Start
EndOfLineToken_BlankAtEnd(st) == IF st \in {"Start", "End"} THEN Blank ELSE NoToken

\* an end-of-line branch that does not tell Process from Start
EndOfLineToken_BlankInProcess(st) ==
    IF st \in {"Start", "Process"} THEN Blank ELSE NoToken

\* the token of the end-of-line branch for the states that do not slice
EndOfLineToken(st) == IF st = "Start" THEN Blank ELSE NoToken

\* the characters that select the rule/list arm in Start
RuleListChars == {" ", Tab, "-", "_", "*", "+"}

\* the characters that end a literal run and select handle_text_modifier
ModifierChars == {"_", "*", "~"}

---------------------------------------------------------------------------
(* Inputs.                                                                 *)

Prefixes ==
    {Hashes(n) : n \in 1..MaxHashes}
        \cup {Fence}
        \cup {<<c, c, c>> : c \in {"-", "_", "*"}}
        \cup {<<m, " ">> : m \in {"-", "*", "+"}}
        \cup {<<" ", m, Tab>> : m \in {"-", "*", "+"}}

\* the delimiters of inline spans
Delims == {<<"*">>, <<"*", "*">>, <<"_">>, <<"_", "_">>, <<"~", "~">>}

\* runs of k delimiters, adjacent ones written with different characters
DelimRuns(k) ==
    {r \in [1..k -> Delims] : \A i \in 1..(k - 1) : r[i][1] # r[i + 1][1]}

RECURSIVE Flatten(_)
Flatten(r) == IF r = <<>> THEN <<>> ELSE Head(r) \o Flatten(Tail(r))

Reverse(r) == [i \in 1..Len(r) |-> r[Len(r) + 1 - i]]

SpanPrefixes == {<<>>, <<"a">>, <<"#", " ">>, <<"-", " ">>}

SpanTexts == {<<"a">>, <<WideChar>>}

\* a prefix, an opening run, plain text and the reversed run
SpanLine(p, r, x) == p \o Flatten(r) \o x \o Flatten(Reverse(r))

SpanLines ==
    {SpanLine(p, r, x) :
        p \in SpanPrefixes,
        r \in UNION {DelimRuns(k) : k \in 1..MaxNest},
        x \in SpanTexts}

Lines ==
    Strs(Alphabet, MaxLen)
        \cup {p \o t : p \in Prefixes, t \in Strs(TailAlphabet, MaxTail)}
        \cup Strs(MixedAlphabet, MaxMixed)
        \cup SpanLines

\* lines of the multi-line inputs
DocLines == {<<>>, <<"a">>, <<"*", "a">>, Fence, Fence \o <<"a">>}

Docs ==
    {<<l>> : l \in Lines}
        \cup UNION {[1..n -> DocLines] : n \in 2..MaxDocLines}

---------------------------------------------------------------------------
(* The state machine.                                                      *)

\* main opens the file and builds Tokenizer::new(line) for its first line
Init ==
    /\ doc \in Docs
    /\ lineIdx = 1
    /\ line = doc[1]
    /\ cursor = 0
    /\ state = "Start"
    /\ pc = "idle"
    /\ literal_start = 0
    /\ current = NoChar
    /\ ret = NotCalled
    /\ tokens = <<>>
    /\ nones = 0

\* next() returns tok: main pushes a token onto tokens
Return(tok) ==
    /\ pc' = "idle"
    /\ ret' = tok
    /\ current' = NoChar
    /\ tokens' = IF tok = NoToken THEN tokens ELSE Append(tokens, tok)
    /\ nones' = IF tok = NoToken THEN nones + 1 ELSE nones

\* the caller enters next(): let mut literal_start = 0
Call ==
    /\ pc = "idle"
    /\ nones < MaxSentinels
    /\ pc' = "fetch"
    /\ literal_start' = 0
    /\ UNCHANGED <<doc, lineIdx, line, cursor, state, current, ret, tokens,
                   nones>>

\* let Some(current) = self.line.chars().nth(self.cursor) succeeds
FetchChar ==
    /\ pc = "fetch"
    /\ CharsNth(line, cursor) # NoChar
    /\ current' = CharsNth(line, cursor)
    /\ pc' = "match"
    /\ UNCHANGED <<doc, lineIdx, line, cursor, state, literal_start, ret,
                   tokens, nones>>

\* the else branch of the let: the cursor is past the last character
EndOfLine ==
    /\ pc = "fetch"
    /\ CharsNth(line, cursor) = NoChar
    /\ IF state = "Text"
          THEN IF SliceOk(line, literal_start, cursor)
                  THEN /\ state' = "End"
                       /\ Return(Literal(Slice(line, literal_start, cursor)))
                  ELSE /\ pc' = "panicked"
                       /\ UNCHANGED <<state, ret, current, tokens, nones>>
          ELSE /\ state' = "End"
               /\ Return(EndOfLineToken(state))
    /\ UNCHANGED <<doc, lineIdx, line, cursor, literal_start>>

\* ('#', State::Start)
HeaderArm ==
    /\ pc = "match"
    /\ state = "Start"
    /\ current = "#"
    /\ state' = "Process"
    /\ cursor' = handle_header(line, cursor).cursor
    /\ Return(handle_header(line, cursor).token)
    /\ UNCHANGED <<doc, lineIdx, line, literal_start>>

\* (' ' | '\t' | '-' | '_' | '*' | '+', State::Start)
RuleListArm ==
    /\ pc = "match"
    /\ state = "Start"
    /\ current \in RuleListChars
    /\ IF IsHorizontalRule(line)
          THEN /\ state' = "End"
               /\ Return(HorizontalRule)
               /\ UNCHANGED cursor
          ELSE /\ state' = "Process"
               /\ IF UlistMatchLen(line) # 0
                     THEN /\ cursor' = cursor + UlistMatchLen(line)
                          /\ Return(UnorderedList)
                     ELSE /\ pc' = "fetch"
                          /\ UNCHANGED <<cursor, ret, current, tokens, nones>>
    /\ UNCHANGED <<doc, lineIdx, line, literal_start>>

\* (backtick, State::Start)
BacktickArm ==
    /\ pc = "match"
    /\ state = "Start"
    /\ current = Backtick
    /\ IF StartsWith(line, Fence)
          THEN /\ state' = "End"
               /\ Return(CodeBlock(trim_start(GetFromOrDefault(line, 3))))
          ELSE /\ pc' = "fetch"
               /\ UNCHANGED <<state, ret, current, tokens, nones>>
    /\ UNCHANGED <<doc, lineIdx, line, cursor, literal_start>>

\* (_, State::Start)
ParagraphArm ==
    /\ pc = "match"
    /\ state = "Start"
    /\ current \notin ({"#", Backtick} \cup RuleListChars)
    /\ state' = "Process"
    /\ Return(Paragraph)
    /\ UNCHANGED <<doc, lineIdx, line, cursor, literal_start>>

\* ('_' | '*' | '~', State::Process)
ModifierArm ==
    /\ pc = "match"
    /\ state = "Process"
    /\ current \in ModifierChars
    /\ cursor' = handle_text_modifier(line, cursor).cursor
    /\ Return(handle_text_modifier(line, cursor).token)
    /\ UNCHANGED <<doc, lineIdx, line, state, literal_start>>

\* (_, State::Process)
BeginTextArm ==
    /\ pc = "match"
    /\ state = "Process"
    /\ current \notin ModifierChars
    /\ state' = "Text"
    /\ literal_start' = cursor
    /\ pc' = "fetch"
    /\ UNCHANGED <<doc, lineIdx, line, cursor, current, ret, tokens, nones>>

\* the arm without the assignment self.state = State::Process of line 96
EndTextArm_StaysText ==
    /\ pc = "match"
    /\ state = "Text"
    /\ current \in ModifierChars
    /\ IF SliceOk(line, literal_start, cursor)
          THEN /\ state' = "Text"
               /\ Return(Literal(Slice(line, literal_start, cursor)))
          ELSE /\ pc' = "panicked"
               /\ UNCHANGED <<state, ret, current, tokens, nones>>
    /\ UNCHANGED <<doc, lineIdx, line, cursor, literal_start>>

\* ('_' | '*' | '~', State::Text)
EndTextArm ==
    /\ pc = "match"
    /\ state = "Text"
    /\ current \in ModifierChars
    /\ IF SliceOk(line, literal_start, cursor)
          THEN /\ state' = "Process"
               /\ Return(Literal(Slice(line, literal_start, cursor)))
          ELSE /\ pc' = "panicked"
               /\ UNCHANGED <<state, ret, current, tokens, nones>>
    /\ UNCHANGED <<doc, lineIdx, line, cursor, literal_start>>

\* (_, State::Text)
AdvanceTextArm ==
    /\ pc = "match"
    /\ state = "Text"
    /\ current \notin ModifierChars
    /\ cursor' = cursor + 1
    /\ pc' = "fetch"
    /\ UNCHANGED <<doc, lineIdx, line, state, literal_start, current, ret,
                   tokens, nones>>

\* (_, _): the only state left is End
CatchAllArm ==
    /\ pc = "match"
    /\ state = "End"
    /\ Return(NoToken)
    /\ UNCHANGED <<doc, lineIdx, line, cursor, state, literal_start>>

\* main: the while-let loop has ended on the sentinel, the tokens are
\* printed, and the for loop builds Tokenizer::new for the next line
NextLine ==
    /\ pc = "idle"
    /\ ret = NoToken
    /\ lineIdx < Len(doc)
    /\ lineIdx' = lineIdx + 1
    /\ line' = doc[lineIdx + 1]
    /\ cursor' = 0
    /\ state' = "Start"
    /\ ret' = NotCalled
    /\ tokens' = <<>>
    /\ nones' = 0
    /\ UNCHANGED <<doc, pc, literal_start, current>>

Next ==
    \/ Call
    \/ FetchChar
    \/ EndOfLine
    \/ HeaderArm
    \/ RuleListArm
    \/ BacktickArm
    \/ ParagraphArm
    \/ ModifierArm
    \/ BeginTextArm
    \/ EndTextArm
    \/ AdvanceTextArm
    \/ CatchAllArm
    \/ NextLine

Spec == Init /\ [][Next]_vars

\* the program is sequential: a step that can be taken is taken
FairSpec == Spec /\ WF_vars(Next)

---------------------------------------------------------------------------
(* Vocabulary of the properties.                                           *)

Running == pc \in {"fetch", "match"}

\* a call of next() has returned on the current line and none is running
Returned == pc = "idle" /\ ret # NotCalled

\* the line has been tokenized to exhaustion
Exhausted == pc = "idle" /\ ret = NoToken

RECURSIVE LeadingHashes(_)
LeadingHashes(s) ==
    IF s # <<>> /\ Head(s) = "#" THEN 1 + LeadingHashes(Tail(s)) ELSE 0

\* 1 to 6 leading '#', one non-'#' character, optional whitespace, at least
\* one more character
HeaderShape(l) ==
    LET n == LeadingHashes(l)
    IN  /\ n \in 1..6
        /\ Len(l) >= n + 1
        /\ \E w \in 0..Len(l) :
              /\ \A i \in (n + 2)..(n + 1 + w) : i <= Len(l) /\ IsWhitespace(l[i])
              /\ Len(l) >= n + 1 + w + 1

RuleLines == {<<"-", "-", "-">>, <<"_", "_", "_">>, <<"*", "*", "*">>}

\* optional leading whitespace, one list marker, one or more whitespace
ListShape(l) ==
    LET a == LeadingWs(l)
    IN  /\ Len(l) >= a + 2
        /\ l[a + 1] \in {"-", "*", "+"}
        /\ IsWhitespace(l[a + 2])

EndsWith(s, p) == Len(s) >= Len(p) /\ SubSeq(s, Len(s) - Len(p) + 1, Len(s)) = p

\* whether a fenced code block is open just before line i of the file
RECURSIVE OpenBefore(_, _)
OpenBefore(d, i) ==
    IF i = 1 THEN FALSE
    ELSE IF OpenBefore(d, i - 1) THEN ~EndsWith(d[i - 1], Fence)
    ELSE StartsWith(d[i - 1], Fence)

\* line i lies strictly between an opening fence and the next closing fence
InsideFence(d, i) ==
    /\ OpenBefore(d, i)
    /\ ~EndsWith(d[i], Fence)
    /\ \E j \in (i + 1)..Len(d) : EndsWith(d[j], Fence)

RECURSIVE LiteralChars(_)
LiteralChars(ts) ==
    IF ts = <<>> THEN 0
    ELSE (IF Head(ts).kind = "Literal" THEN Len(Head(ts).text) ELSE 0)
            + LiteralChars(Tail(ts))

RECURSIVE DelimiterChars(_)
DelimiterChars(ts) ==
    IF ts = <<>> THEN 0
    ELSE (CASE Head(ts).kind = "Italic" -> 1
            [] Head(ts).kind \in {"Bold", "Strikethrough"} -> 2
            [] OTHER -> 0)
            + DelimiterChars(Tail(ts))

\* the structural prefix a Header or UnorderedList token stands for
PrefixChars(l, first) ==
    CASE first.kind = "Header" ->
            LeadingHashes(l) + LeadingWs(SubSeq(l, LeadingHashes(l) + 1, Len(l)))
      [] first.kind = "UnorderedList" ->
            LeadingWs(l) + 1 + LeadingWs(SubSeq(l, LeadingWs(l) + 2, Len(l)))
      [] OTHER -> 0

---------------------------------------------------------------------------
(* The properties.                                                         *)

\* C1: every call of next() returns, and repeated calls on a line reach the
\* sentinel, so the driver loop ends for every line.  (A call that ends in
\* a panic is not counted against termination here.)
C1_EveryLineTerminates ==
    /\ [](Running => <>(pc \in {"idle", "panicked"}))
    /\ <>(nones > 0 \/ pc = "panicked")

\* C2: on a non-empty line that is no code fence and on which the header,
\* horizontal-rule and unordered-list recognizers all fail, the first token
\* is Paragraph and the cursor is still 0 after it.
C2_ParagraphWhenNothingMatches ==
    (/\ line # <<>>
     /\ ~StartsWith(line, Fence)
     /\ ~HeaderShape(line)
     /\ line \notin RuleLines
     /\ ~ListShape(line)
     /\ tokens # <<>>)
        => /\ tokens[1] = Paragraph
           /\ (Len(tokens) = 1 /\ pc = "idle") => cursor = 0

\* C3: no call of next() panics, on any line.
C3_NeverPanics == pc # "panicked"

\* C4: every line strictly inside a fenced code block yields exactly one
\* token, the Literal of the whole line.  (Stated for the non-empty lines,
\* whose full text is unambiguous.)
C4_InteriorLinesVerbatim ==
    (Exhausted /\ InsideFence(doc, lineIdx) /\ line # <<>>)
        => tokens = <<Literal(line)>>

\* C5: once next() has returned the sentinel on a line, the state is End
\* and every later call returns the sentinel too.
C5_IdempotentExhaustion ==
    nones >= 1 => /\ state = "End"
                  /\ pc # "panicked"
                  /\ pc = "idle" => ret = NoToken

C5_Witness ==
    /\ nones >= 2
    /\ pc = "idle"
    /\ Len(line) = 3
    /\ tokens = <<Paragraph, Literal(line)>>

\* C6: on a non-empty line tokenized to exhaustion (no horizontal rule, no
\* code fence) the lengths of the Literal texts, of the structural prefix
\* and of the delimiters add up to the length of the line.
C6_NoCharacterLost ==
    (/\ Exhausted
     /\ line # <<>>
     /\ line \notin RuleLines
     /\ ~StartsWith(line, Fence))
        => LiteralChars(tokens) + DelimiterChars(tokens)
              + (IF tokens = <<>> THEN 0 ELSE PrefixChars(line, tokens[1]))
              = Len(line)

\* C7: on a line that starts with '#', the first token is Header(n), n the
\* number of leading '#', exactly when the line has the header shape;
\* otherwise it is Paragraph, the cursor stays at 0 and the token after it
\* is a Literal that begins at the first character of the line.
C7_HeaderDecision ==
    (line # <<>> /\ line[1] = "#" /\ tokens # <<>>)
        => IF HeaderShape(line)
              THEN tokens[1] = Header(LeadingHashes(line))
              ELSE /\ tokens[1] = Paragraph
                   /\ (Len(tokens) = 1 /\ pc = "idle") => cursor = 0
                   /\ Len(tokens) >= 2
                        => /\ tokens[2].kind = "Literal"
                           /\ tokens[2].text # <<>>
                           /\ StartsWith(line, tokens[2].text)

C7_Witness ==
    /\ LeadingHashes(line) = 7
    /\ Len(line) > 8
    /\ tokens = <<Paragraph, Literal(line)>>

\* C8: after Header(level) the cursor is past the level '#' characters and
\* all the whitespace that follows them, and past nothing else.
C8_CursorAfterHeader ==
    (pc = "idle" /\ Len(tokens) = 1 /\ tokens[1].kind = "Header")
        => cursor = tokens[1].level
                      + LeadingWs(SubSeq(line, tokens[1].level + 1, Len(line)))

\* C9: a line yields HorizontalRule exactly when it is "---", "___" or
\* "***"; it is then the only token and every further call returns the
\* sentinel.
C9_HorizontalRuleIff ==
    /\ \A i \in 1..Len(tokens) :
          tokens[i] = HorizontalRule => line \in RuleLines
    /\ line \in RuleLines
          => /\ pc # "panicked"
             /\ Returned => tokens = <<HorizontalRule>>

C9_Witness ==
    /\ line = <<"*", "*", "*">>
    /\ tokens = <<HorizontalRule>>
    /\ Exhausted

\* C10: the empty line yields Blank and then only the sentinel; a non-empty
\* line never yields Blank.
C10_BlankIffEmpty ==
    /\ line = <<>> => /\ pc # "panicked"
                      /\ Returned => tokens = <<Blank>>
    /\ line # <<>> => \A i \in 1..Len(tokens) : tokens[i] # Blank

C10_Witness ==
    /\ line = <<>>
    /\ tokens = <<Blank>>
    /\ Exhausted

\* C11: a structural token (Header, UnorderedList, HorizontalRule,
\* Paragraph, Blank, CodeBlock) is only ever the first token of its line;
\* every later token is Literal, Bold, Italic or Strikethrough.
C11_StructuralTokensFirst ==
    \A i \in 2..Len(tokens) :
        tokens[i].kind \in {"Literal", "Bold", "Italic", "Strikethrough"}

C11_Witness ==
    /\ Exhausted
    /\ Len(tokens) >= 4
    /\ tokens[1].kind = "Header"

\* the token the doubling rule gives for character c followed by n
DoublingToken(c, n) ==
    IF c = "~" /\ n = "~" THEN Strikethrough
    ELSE IF c = "*" /\ n = "*" THEN Bold
    ELSE IF c = "_" /\ n = "_" THEN Bold
    ELSE Italic

\* C12: a call in Process with the cursor on '_', '*' or '~' returns the
\* token of the doubling rule, decided by that character and the one after
\* it alone, and advances the cursor by 2 for a doubled marker and by 1
\* otherwise (a single '~' included); the state stays Process.
C12_DoublingRule ==
    [][(state = "Process" /\ Running
            /\ CharsNth(line, cursor) \in {"_", "*", "~"})
        => LET c == CharsNth(line, cursor)
               n == CharsNth(line, cursor + 1)
           IN  IF pc = "fetch"
                  THEN pc' = "match" /\ cursor' = cursor /\ state' = state
                  ELSE /\ pc' = "idle"
                       /\ state' = "Process"
                       /\ ret' = DoublingToken(c, n)
                       /\ cursor' = cursor + (IF ret' = Italic THEN 1 ELSE 2)
                       /\ tokens' = Append(tokens, ret')]_vars

C12_Witness ==
    /\ pc = "idle"
    /\ line = <<"a", "~">>
    /\ tokens = <<Paragraph, Literal(<<"a">>), Italic>>
    /\ cursor = 2

\* the number of characters of the list prefix of a line of list shape:
\* leading whitespace, the marker, the whitespace after it
ListPrefixChars(l) ==
    LeadingWs(l) + 1 + LeadingWs(SubSeq(l, LeadingWs(l) + 2, Len(l)))

\* C13: a line of list shape (optional leading whitespace, one of the
\* markers '-', '*', '+', one or more whitespace, any rest) that is no
\* horizontal rule yields UnorderedList first, and the cursor is then just
\* past the matched prefix.
C13_ListRecognition ==
    (ListShape(line) /\ line \notin RuleLines)
        => /\ pc # "panicked"
           /\ tokens # <<>> => tokens[1] = UnorderedList
           /\ (pc = "idle" /\ Len(tokens) = 1) => cursor = ListPrefixChars(line)

\* C14 (first half): between calls the cursor is at most the length of the
\* line, counted in characters as chars().nth(cursor) counts it.
C14_CursorWithinLine == pc = "idle" => cursor <= Len(line)

\* the text after the three fence characters, leading whitespace removed
RECURSIVE DropLeadingWs(_)
DropLeadingWs(s) ==
    IF s # <<>> /\ IsWhitespace(s[1]) THEN DropLeadingWs(Tail(s)) ELSE s

\* C15: a line whose first three characters are backticks yields exactly
\* one token, CodeBlock(label), label the rest of the line with its leading
\* whitespace removed and everything else kept; then only the sentinel.
C15_FenceOpening ==
    StartsWith(line, Fence)
        => /\ pc # "panicked"
           /\ Returned
                => tokens = <<CodeBlock(DropLeadingWs(SubSeq(line, 4, Len(line))))>>

C15_Witness ==
    /\ Exhausted
    /\ line = Fence \o <<" ", "a", " ">>
    /\ tokens = <<CodeBlock(<<"a", " ">>)>>

\* the span lines with the number of delimiters of their opening run
SpanCases ==
    UNION {{[line |-> SpanLine(p, r, x), k |-> k] :
                p \in SpanPrefixes, r \in DelimRuns(k), x \in SpanTexts} :
           k \in 1..MaxNest}

\* the Bold, Italic and Strikethrough tokens of a token sequence, in order
RECURSIVE DelimTokens(_)
DelimTokens(ts) ==
    IF ts = <<>> THEN <<>>
    ELSE (IF Head(ts).kind \in {"Bold", "Italic", "Strikethrough"}
             THEN <<Head(ts)>> ELSE <<>>) \o DelimTokens(Tail(ts))

\* C16: on a line made of a prefix, an opening run of k delimiters, plain
\* text and the reversed run, the line is tokenized to the end and the
\* tokens of the closing run are those of the opening run in reverse.
C16_NestedDelimitersMirror ==
    line \in SpanLines
        => \A c \in SpanCases :
              c.line = line
                => /\ pc # "panicked"
                   /\ Exhausted
                        => LET D == DelimTokens(tokens)
                           IN  /\ Len(D) = 2 * c.k
                               /\ \A i \in 1..c.k : D[2 * c.k + 1 - i] = D[i]

\* C17: every Literal returned is non-empty and holds none of '_', '*',
\* '~', and no two consecutive tokens of a line are both Literal.
C17_LiteralsArePlainRuns ==
    /\ \A i \in 1..Len(tokens) :
          tokens[i].kind = "Literal"
              => /\ tokens[i].text # <<>>
                 /\ \A j \in 1..Len(tokens[i].text) :
                       tokens[i].text[j] \notin {"_", "*", "~"}
    /\ \A i \in 1..(Len(tokens) - 1) :
          ~(tokens[i].kind = "Literal" /\ tokens[i + 1].kind = "Literal")

\* C18: no call returns in Text; Text is entered from Process inside a
\* call, with literal_start set to the cursor, which has not moved since
\* the call began, and literal_start is kept until the Literal is sliced
\* from it; the state is Start only while no call has returned on the line,
\* the cursor being 0.
C18_TextNeverSurvivesACall ==
    [][/\ pc' = "idle" => state' \in {"Start", "Process", "End"}
       /\ (state' = "Text" /\ state # "Text")
             => /\ Running
                /\ state = "Process"
                /\ literal_start' = cursor
                /\ cursor' = cursor
       /\ (state = "Text" /\ state' = "Text") => literal_start' = literal_start
       /\ (Running /\ state \in {"Start", "Process"} /\ pc' # "idle")
             => cursor' = cursor
       /\ (pc # "idle" /\ pc' = "idle" /\ ret'.kind = "Literal")
             => /\ state = "Text"
                /\ ret' = Literal(Slice(line, literal_start, cursor))
       /\ state' = "Start"
             => /\ ret' = NotCalled
                /\ tokens' = <<>>
                /\ cursor' = 0]_vars

C18_Witness ==
    /\ Exhausted
    /\ line = <<"a", "*", "a">>
    /\ tokens = <<Paragraph, Literal(<<"a">>), Italic, Literal(<<"a">>)>>

===========================================================================
